---- MODULE Spec2Model ----
(***************************************************************************)
(* Understand Salah: real-time transcription web application.              *)
(*                                                                         *)
(* The module models                                                       *)
(*   - the server (src/README.md, lines 257-339): the audio-chunk batching *)
(*     of the Socket.IO handlers and processAudioChunk, the sequential     *)
(*     recognize -> translate pipeline;                                    *)
(*   - the client transcript buffer: the compact policy                    *)
(*     (src/unnamed/part_000, manageCompactTranscription) and the          *)
(*     cumulative policy (src/unnamed/part_001,                            *)
(*     manageCumulativeTranscription);                                     *)
(*   - the client recording controller (toggleRecording, startRecording,   *)
(*     stopRecording and the socket handlers of src/unnamed/part_000).     *)
(*                                                                         *)
(* SpecServer, SpecBuffer and SpecClient run one component each;           *)
(* SpecSession runs the recording controller together with the updates of  *)
(* the transcript buffer.                                                  *)
(*                                                                         *)
(* A JavaScript string is a sequence of one-character strings.  An async   *)
(* handler is one action per run-to-completion segment (the code between   *)
(* two awaits).                                                            *)
(***************************************************************************)
EXTENDS Integers, Sequences, FiniteSets, TLC

VARIABLES
    \* ---- server (src/README.md) ----
    conn,           \* per socket: "new", "connected" or "closed"
    audioBuffers,   \* the module-level array of pending fragments
    received,       \* history: received[i] is the socket that sent fragment i
    calls,          \* one record per call of processAudioChunk, in call order
    discarded,      \* history: ids of the fragments a stop-recording found
                    \* pending below the threshold
    acks,           \* history: for each connection under observation, the
                    \* start-recording and stop-recording events handled and the
                    \* recording-started and recording-stopped events emitted to it
    \* ---- client transcript buffer (part_000 / part_001) ----
    policy,         \* which client variant is loaded: "compact", "cumulative", "simple"
    transcriptionBuffer, \* [arabic, english, lastUpdate]
    now,            \* Date.now(), in ms
    updates,        \* number of transcription-update events handled so far
    last,           \* history: what the last buffer operation did
    heard,          \* history: the texts joined since the last reset
    textContent,    \* the textContent of arabicTranscription and englishTranscription
    fullscreen,     \* the fullscreen modes: their variables and overlay texts
    \* ---- client recording controller (part_000) ----
    isRecording,    \* the boolean flag
    mediaRecorder,  \* the variable: 0 (null) or the id of a recorder
    audioStream,    \* the variable: 0 (null) or the id of a stream
    recorders,      \* state of every MediaRecorder created so far
    chunks,         \* the client's chunks array (fragment ids)
    micRequests,    \* startRecording calls waiting in getUserMedia
    captured,       \* number of fragments the recorders have produced so far
    reads,          \* FileReader reads of sendAudioChunk that have not ended yet
    clicks,         \* number of clicks on the record button so far
    outbox,         \* history: events emitted to the server, in order
    clientLog       \* history: the last client handler and the state it found

serverVars == <<conn, audioBuffers, received, calls, discarded, acks>>
bufferVars == <<policy, transcriptionBuffer, now, updates, last, heard,
                textContent, fullscreen>>
clientVars == <<isRecording, mediaRecorder, audioStream, recorders, chunks,
                micRequests, captured, reads, clicks, outbox, clientLog>>
vars == <<serverVars, bufferVars, clientVars>>

\* ------------------------------------------------------------------ bounds

\* fragments received by the server in one run
MaxFragments == 4
\* transcription-update events handled by the client buffer in one run
MaxUpdates == 3
\* the clock of the client stops at this time, in ms
MaxTime == 5000
\* clicks on the record button in one run
MaxClicks == 2
\* fragments the media recorders produce in one run
MaxCaptured == 1
\* start-recording and stop-recording events of one connection under
\* observation that the server handles in one run
MaxRequests == 2
\* stop-recording events a page emits in one run
MaxStops == 2
\* fragments the server receives in one run with every connection observed
MaxObservedFragments == 2

\* ------------------------------------------------------------------ strings

Space == " "
Newline == "\n"
WhiteSpace == {Space, Newline}
Ellipsis == <<".", ".", ".">>
ParagraphBreak == <<Newline, Newline>>

\* String.prototype.trim: the string without its leading and trailing white space.
RECURSIVE TrimStart(_)
TrimStart(s) ==
    IF Len(s) > 0 /\ s[1] \in WhiteSpace THEN TrimStart(Tail(s)) ELSE s

RECURSIVE TrimEnd(_)
TrimEnd(s) ==
    IF Len(s) > 0 /\ s[Len(s)] \in WhiteSpace
    THEN TrimEnd(SubSeq(s, 1, Len(s) - 1))
    ELSE s

Trim(s) == TrimEnd(TrimStart(s))

\* A JavaScript string used as a condition: the empty string is falsy, every
\* other string (white space included) is truthy.  undefined is modelled as "".
Truthy(s) == Len(s) > 0

\* Array.prototype.join
RECURSIVE Join(_, _)
Join(strs, sep) ==
    IF Len(strs) = 0 THEN <<>>
    ELSE IF Len(strs) = 1 THEN strs[1]
    ELSE strs[1] \o sep \o Join(Tail(strs), sep)

\* ------------------------------------------------------------------ server
\* src/README.md, lines 257-339

\* client connections (socket.id)
Sockets == {"c1", "c2"}

\* "if (audioBuffers.length >= 2)"
BatchThreshold == 2

Empty == <<>>
Word == <<"a">>

\* What speechClient.recognize can answer: response.results as the sequence of
\* alternatives[0].transcript: no result, two results without text, one result
\* with text.
RecognizerResponses == {<<>>, <<Empty, Empty>>, <<Word>>}

\* What translate.translate can answer.
Translations == {<<"e">>}

\* response.results.map(result => result.alternatives[0].transcript).join('\n')
Transcription(response) == Join(response, <<Newline>>)

\* Buffer.from(audioData) of the i-th audio-chunk event: its sender and its
\* length in bytes
Fragment(i, s, bytes) == [id |-> i, sock |-> s, bytes |-> bytes]

\* The length of audioData.  The clients of this repository send a fragment
\* only when "event.data.size > 0"; another client can send an empty one.
AudioData == {0, 1}

FragmentIds(batch) == {batch[i].id : i \in 1..Len(batch)}

\* the start-recording events of connection s handled so far, when s is observed
Starts(s) ==
    IF s \in DOMAIN acks
    THEN Cardinality({i \in DOMAIN acks[s] : acks[s][i] = "recording-started"})
    ELSE 0

\* processAudioChunk(buffers, socket) up to its first await: Buffer.concat takes
\* the content of the array as it is now, and speechClient.recognize is called.
\* History: session is the number of start-recording events of the connection
\* that were handled before the call.
ProcessAudioChunkCall(buffers, socket) ==
    [sock |-> socket, batch |-> buffers, pc |-> "recognize",
     recognizeCalls |-> 1, translateCalls |-> 0, recognized |-> FALSE,
     transcription |-> Empty, translation |-> Empty,
     updates |-> 0, errors |-> 0, failed |-> "none",
     emitSeq |-> 0, emittedAfter |-> {}, session |-> Starts(socket)]

\* The recognizer answered: "if (transcription)" decides between the translate
\* call and the end of the function without any emit.
ProcessAudioChunkRecognized(c, response) ==
    LET transcription == Transcription(response)
    IN  IF Truthy(transcription)
        THEN [c EXCEPT !.pc = "translate", !.recognized = TRUE,
                       !.transcription = transcription,
                       !.translateCalls = @ + 1]
        ELSE [c EXCEPT !.pc = "done", !.recognized = TRUE,
                       !.transcription = transcription]

\* The translator answered: socket.emit('transcription-update', ...).
ProcessAudioChunkTranslated(c, text) ==
    [c EXCEPT !.pc = "done", !.translation = text, !.updates = @ + 1]

\* A catch block that swallows the error: no emit.
ProcessAudioChunkCatchSilent(c) ==
    [c EXCEPT !.pc = "done"]

\* The catch block: socket.emit('error', ...).
ProcessAudioChunkCatch(c) ==
    [c EXCEPT !.pc = "done", !.errors = @ + 1]

\* the history log with one more event of connection s, when s is observed
Observe(log, s, event) ==
    IF s \in DOMAIN log THEN [log EXCEPT ![s] = Append(@, event)] ELSE log

\* socket.on(event, ...) of connection s: the handler of the event is called
On(s, event) == Observe(acks, s, event)

\* An emit that is skipped while a call of processAudioChunk is in flight.
EmitUnlessBusy(log, s, event) ==
    IF \E b \in DOMAIN calls : calls[b].pc # "done"
    THEN log
    ELSE Observe(log, s, event)

\* socket.emit(event) of a handler of connection s
Emit(log, s, event) == Observe(log, s, event)

\* the requests of connection s that the server has handled
Requests(s) ==
    Cardinality({i \in DOMAIN acks[s] :
                    acks[s][i] \in {"start-recording", "stop-recording"}})

\* the history of an observed connection has room for one more request
Observable(s) == s \in DOMAIN acks => Requests(s) < MaxRequests

\* the server has started and nobody is connected
InitServerState ==
    /\ conn = [s \in Sockets |-> "new"]
    /\ audioBuffers = <<>>
    /\ received = <<>>
    /\ calls = <<>>
    /\ discarded = {}

\* the same, no connection being observed
InitServer ==
    /\ InitServerState
    /\ acks = <<>>

\* the same, every connection being observed
InitObserved ==
    /\ InitServerState
    /\ acks = [s \in Sockets |-> <<>>]

\* io.on('connection', ...): the handlers of the socket are registered.
Connect(s) ==
    /\ conn[s] = "new"
    /\ conn' = [conn EXCEPT ![s] = "connected"]
    /\ UNCHANGED <<audioBuffers, received, calls>>
    /\ UNCHANGED <<discarded, acks>>
    /\ UNCHANGED <<bufferVars, clientVars>>

\* socket.on('start-recording')
StartRecordingHandler(s) ==
    /\ conn[s] = "connected"
    /\ Observable(s)
    /\ audioBuffers' = <<>>
    /\ acks' = Emit(On(s, "start-recording"), s, "recording-started")
    /\ UNCHANGED <<conn, received, calls>>
    /\ UNCHANGED discarded
    /\ UNCHANGED <<bufferVars, clientVars>>

\* socket.on('audio-chunk'), up to the await of processAudioChunk
AudioChunkHandler(s, audioData) ==
    /\ conn[s] = "connected"
    /\ Len(received) < MaxFragments
    /\ LET buffers == Append(audioBuffers, Fragment(Len(received) + 1, s, audioData))
       IN  /\ audioBuffers' = buffers
           /\ calls' = IF Len(buffers) >= BatchThreshold
                       THEN Append(calls, ProcessAudioChunkCall(buffers, s))
                       ELSE calls
    /\ received' = Append(received, s)
    /\ UNCHANGED conn
    /\ UNCHANGED <<discarded, acks>>
    /\ UNCHANGED <<bufferVars, clientVars>>

\* speechClient.recognize resolves.  When processAudioChunk ends here, the
\* audio-chunk handler that awaits it resumes in the same turn of the event
\* loop (no socket event can run in between): audioBuffers = [].
RecognizeReturn(b, response) ==
    /\ calls[b].pc = "recognize"
    /\ LET c == ProcessAudioChunkRecognized(calls[b], response)
       IN  /\ calls' = [calls EXCEPT ![b] = c]
           /\ audioBuffers' = IF c.pc = "done" THEN <<>> ELSE audioBuffers
    /\ UNCHANGED <<conn, received>>
    /\ UNCHANGED <<discarded, acks>>
    /\ UNCHANGED <<bufferVars, clientVars>>

\* A failure of the recognizer that ends the session: the connection is closed.
RecognizeFailClosesSession(b) ==
    /\ calls[b].pc = "recognize"
    /\ calls' = [calls EXCEPT ![b] =
                    ProcessAudioChunkCatch([@ EXCEPT !.failed = "recognize"])]
    /\ audioBuffers' = <<>>
    /\ conn' = [conn EXCEPT ![calls[b].sock] = "closed"]
    /\ UNCHANGED received
    /\ UNCHANGED <<discarded, acks>>
    /\ UNCHANGED <<bufferVars, clientVars>>

\* speechClient.recognize rejects (or speechClient is null): catch, then the
\* handler resumes.
RecognizeFail(b) ==
    /\ calls[b].pc = "recognize"
    /\ calls' = [calls EXCEPT ![b] =
                    ProcessAudioChunkCatch([@ EXCEPT !.failed = "recognize"])]
    /\ audioBuffers' = <<>>
    /\ UNCHANGED <<conn, received>>
    /\ UNCHANGED <<discarded, acks>>
    /\ UNCHANGED <<bufferVars, clientVars>>

\* the transcription-update events emitted to connection s so far
EmittedTo(s) == {b \in DOMAIN calls : calls[b].sock = s /\ calls[b].updates > 0}

\* The same with a check of the session before the emit: no event for a call
\* that a stop-recording has overtaken.
TranslateReturnGated(b, text) ==
    /\ calls[b].pc = "translate"
    /\ calls' = [calls EXCEPT ![b] =
                    IF \E f \in discarded : \A g \in FragmentIds(calls[b].batch) : g < f
                    THEN ProcessAudioChunkCatchSilent(@)
                    ELSE [ProcessAudioChunkTranslated(@, text)
                             EXCEPT !.emitSeq = Cardinality(EmittedTo(calls[b].sock)) + 1,
                                    !.emittedAfter = discarded]]
    /\ audioBuffers' = <<>>
    /\ UNCHANGED <<conn, received>>
    /\ UNCHANGED <<discarded, acks>>
    /\ UNCHANGED <<bufferVars, clientVars>>

\* translate.translate resolves: emit, then the handler resumes.  History:
\* emitSeq is the position of the event among those emitted to the connection,
\* emittedAfter the fragments that stop-recording handlers had discarded before.
TranslateReturn(b, text) ==
    /\ calls[b].pc = "translate"
    /\ calls' = [calls EXCEPT ![b] =
                    [ProcessAudioChunkTranslated(@, text)
                        EXCEPT !.emitSeq = Cardinality(EmittedTo(calls[b].sock)) + 1,
                               !.emittedAfter = discarded]]
    /\ audioBuffers' = <<>>
    /\ UNCHANGED <<conn, received>>
    /\ UNCHANGED <<discarded, acks>>
    /\ UNCHANGED <<bufferVars, clientVars>>

\* translate.translate rejects: catch, then the handler resumes.
TranslateFail(b) ==
    /\ calls[b].pc = "translate"
    /\ calls' = [calls EXCEPT ![b] =
                    ProcessAudioChunkCatch([@ EXCEPT !.failed = "translate"])]
    /\ audioBuffers' = <<>>
    /\ UNCHANGED <<conn, received>>
    /\ UNCHANGED <<discarded, acks>>
    /\ UNCHANGED <<bufferVars, clientVars>>

\* the fragments that are pending while the list is below the threshold
BelowThreshold(buffers) ==
    IF Len(buffers) < BatchThreshold THEN FragmentIds(buffers) ELSE {}

\* A stop-recording handler that leaves the pending list as it is.
StopRecordingHandlerKeepsPending(s) ==
    /\ conn[s] = "connected"
    /\ Observable(s)
    /\ acks' = Emit(On(s, "stop-recording"), s, "recording-stopped")
    /\ discarded' = discarded \cup BelowThreshold(audioBuffers)
    /\ UNCHANGED <<conn, audioBuffers, received, calls>>
    /\ UNCHANGED <<bufferVars, clientVars>>

\* socket.on('stop-recording')
StopRecordingHandler(s) ==
    /\ conn[s] = "connected"
    /\ Observable(s)
    /\ acks' = Emit(On(s, "stop-recording"), s, "recording-stopped")
    /\ audioBuffers' = <<>>
    /\ discarded' = discarded \cup BelowThreshold(audioBuffers)
    /\ UNCHANGED <<conn, received, calls>>
    /\ UNCHANGED <<bufferVars, clientVars>>

\* socket.on('disconnect')
DisconnectHandler(s) ==
    /\ conn[s] = "connected"
    /\ conn' = [conn EXCEPT ![s] = "closed"]
    /\ audioBuffers' = <<>>
    /\ UNCHANGED <<received, calls>>
    /\ UNCHANGED <<discarded, acks>>
    /\ UNCHANGED <<bufferVars, clientVars>>

NextServer ==
    \/ \E s \in Sockets : Connect(s)
    \/ \E s \in Sockets : StartRecordingHandler(s)
    \/ \E s \in Sockets : AudioChunkHandler(s, 1)
    \/ \E b \in DOMAIN calls : \E r \in RecognizerResponses : RecognizeReturn(b, r)
    \/ \E b \in DOMAIN calls : RecognizeFail(b)
    \/ \E b \in DOMAIN calls : \E t \in Translations : TranslateReturn(b, t)
    \/ \E b \in DOMAIN calls : TranslateFail(b)
    \/ \E s \in Sockets : StopRecordingHandler(s)
    \/ \E s \in Sockets : DisconnectHandler(s)

\* socket.on('audio-chunk') of connection s, in a run with every connection
\* observed
ObservedAudioChunk(s) ==
    /\ Len(received) < MaxObservedFragments
    /\ AudioChunkHandler(s, 1)

\* the server with every connection observed
NextObserved ==
    \/ \E s \in Sockets : Connect(s)
    \/ \E s \in Sockets : StartRecordingHandler(s)
    \/ \E s \in Sockets : ObservedAudioChunk(s)
    \/ \E b \in DOMAIN calls : \E r \in RecognizerResponses : RecognizeReturn(b, r)
    \/ \E b \in DOMAIN calls : RecognizeFail(b)
    \/ \E b \in DOMAIN calls : \E t \in Translations : TranslateReturn(b, t)
    \/ \E b \in DOMAIN calls : TranslateFail(b)
    \/ \E s \in Sockets : StopRecordingHandler(s)
    \/ \E s \in Sockets : DisconnectHandler(s)


\* ------------------------------------------------------------------ transcript buffer
\* src/unnamed/part_000 (compact policy), src/unnamed/part_001 (cumulative policy)

\* transcriptionBuffer.pauseThreshold
pauseThreshold == 2000
\* transcriptionBuffer.maxLength
maxLength == 300
\* "transcriptionBuffer.arabic.length - transcriptionBuffer.maxLength + 100"
arabicKeepOffset == 100
\* "transcriptionBuffer.english.length - (transcriptionBuffer.maxLength * 0.8) + 50"
englishKeepOffset == 50
\* "const maxPrayerLength = 2000"
maxPrayerLength == 2000
\* ".slice(-1500)"
prayerKeep == 1500

\* transcriptionBuffer.maxLength * 0.8 (240 exactly in IEEE double arithmetic)
englishMaxLength == (maxLength * 8) \div 10

\* String.prototype.lastIndexOf(pat, fromIndex), 0-based; -1 when there is none
LastIndexOf(s, pat, fromIndex) ==
    LET from == IF fromIndex < 0 THEN 0
                ELSE IF fromIndex > Len(s) THEN Len(s) ELSE fromIndex
        top == IF from < Len(s) - Len(pat) THEN from ELSE Len(s) - Len(pat)
        found == {k \in 0..top : \A j \in 1..Len(pat) : s[k + j] = pat[j]}
    IN  IF found = {} THEN -1
        ELSE CHOOSE k \in found : \A m \in found : m <= k

\* String.prototype.substring(start), 0-based
Substring(s, start) ==
    LET from == IF start < 0 THEN 0
                ELSE IF start > Len(s) THEN Len(s) ELSE start
    IN  SubSeq(s, from + 1, Len(s))

\* String.prototype.slice(n): the string without its first n characters.
SliceFrom(s, n) ==
    IF Len(s) <= n THEN <<>> ELSE SubSeq(s, n + 1, Len(s))

\* String.prototype.slice(-n): the last n characters
SliceLast(s, n) ==
    IF Len(s) <= n THEN s ELSE SubSeq(s, Len(s) - n + 1, Len(s))

\* "if (arabicText && arabicText.trim())"
HasText(text) == Truthy(text) /\ Truthy(Trim(text))

\* The same without trimming the content that is already there.
CompactJoinUntrimmed(content, text, isContinuation) ==
    IF isContinuation
    THEN content \o <<Space>> \o Trim(text)
    ELSE content \o ParagraphBreak \o Trim(text)

\* part_000, lines 59-65 and 82-86: the text joined to the content
CompactJoin(content, text, isContinuation) ==
    IF isContinuation
    THEN Trim(content) \o <<Space>> \o Trim(text)
    ELSE Trim(content) \o ParagraphBreak \o Trim(text)

\* The same, keeping the start of the content instead of its end.
CompactTruncateKeepsStart(content, ceiling, keepOffset, breakMin) ==
    IF Len(content) > ceiling
    THEN LET truncatePoint == Len(content) - ceiling + keepOffset
             lastBreak == LastIndexOf(content, ParagraphBreak, truncatePoint)
             cut == IF lastBreak > breakMin THEN lastBreak ELSE truncatePoint
         IN  Ellipsis \o SubSeq(content, 1, Len(content) - cut)
    ELSE content

\* a truncation that never looks for a paragraph break
CompactTruncateAtCut(content, ceiling, keepOffset, breakMin) ==
    IF Len(content) > ceiling
    THEN Ellipsis \o Substring(content, Len(content) - ceiling + keepOffset)
    ELSE content

\* A management of the length that starts over: content that is too long is
\* dropped.
CompactTruncateDropsAll(content, ceiling, keepOffset, breakMin) ==
    IF Len(content) > ceiling THEN Empty ELSE content

\* part_000, lines 68-78 and 89-98: "Manage maximum length - keep recent content"
CompactTruncate(content, ceiling, keepOffset, breakMin) ==
    IF Len(content) > ceiling
    THEN LET truncatePoint == Len(content) - ceiling + keepOffset
             lastBreak == LastIndexOf(content, ParagraphBreak, truncatePoint)
             cut == IF lastBreak > breakMin THEN lastBreak ELSE truncatePoint
         IN  Ellipsis \o Substring(content, cut)
    ELSE content

\* The same with a pause of exactly the threshold counted as a continuation.
IsContinuationAtThreshold(buf, timestamp) ==
    /\ timestamp - buf.lastUpdate <= pauseThreshold
    /\ Len(Trim(buf.arabic)) > 0

\* The same with the comparison of the time difference turned around.
IsContinuationAfterPause(buf, timestamp) ==
    /\ timestamp - buf.lastUpdate >= pauseThreshold
    /\ Len(Trim(buf.arabic)) > 0

\* "(timeDiff < transcriptionBuffer.pauseThreshold) &&
\*  transcriptionBuffer.arabic.trim().length > 0"
IsContinuation(buf, timestamp) ==
    /\ timestamp - buf.lastUpdate < pauseThreshold
    /\ Len(Trim(buf.arabic)) > 0

\* The content of both accumulators after the text was joined and before the
\* length is managed (the content itself when there is no text).
CompactJoined(buf, arabicText, englishText, timestamp) ==
    [arabic |-> IF HasText(arabicText)
                THEN CompactJoin(buf.arabic, arabicText, IsContinuation(buf, timestamp))
                ELSE buf.arabic,
     english |-> IF HasText(englishText)
                 THEN CompactJoin(buf.english, englishText, IsContinuation(buf, timestamp))
                 ELSE buf.english]

\* manageCompactTranscription(arabicText, englishText, timestamp)
ManageCompactTranscription(buf, arabicText, englishText, timestamp) ==
    LET joined == CompactJoined(buf, arabicText, englishText, timestamp)
    IN  [arabic |-> IF HasText(arabicText)
                    THEN CompactTruncate(joined.arabic, maxLength, arabicKeepOffset,
                                         maxLength \div 3)
                    ELSE buf.arabic,
         english |-> IF HasText(englishText)
                     THEN CompactTruncate(joined.english, englishMaxLength,
                                          englishKeepOffset, englishMaxLength \div 2)
                     ELSE buf.english,
         lastUpdate |-> timestamp]

\* The same with every text starting a new paragraph.
CumulativeJoinParagraphs(content, text) ==
    LET clean == Trim(text)
    IN  IF Truthy(Trim(content))
        THEN content \o ParagraphBreak \o clean
        ELSE clean

\* part_001, lines 56-65 and 77-84: the text appended to the content
CumulativeJoin(content, text) ==
    LET clean == Trim(text)
    IN  IF Truthy(Trim(content))
        THEN LET trimmed == Trim(content)
                 lastChar == trimmed[Len(trimmed)]
                 needsSpace == lastChar \notin {Space, Newline}
             IN  content \o (IF needsSpace THEN <<Space>> ELSE <<>>) \o clean
        ELSE clean

\* No management of the length at all.
CumulativeKeepAll(content) == content

\* The same, keeping the oldest part of the prayer instead of the most recent.
CumulativeTruncateKeepsStart(content) ==
    IF Len(content) > maxPrayerLength
    THEN Ellipsis \o SubSeq(content, 1, prayerKeep)
    ELSE content

\* part_001, lines 68-72 and 87-90
CumulativeTruncate(content) ==
    IF Len(content) > maxPrayerLength
    THEN Ellipsis \o SliceLast(content, prayerKeep)
    ELSE content

CumulativeJoined(buf, arabicText, englishText) ==
    [arabic |-> IF HasText(arabicText) THEN CumulativeJoin(buf.arabic, arabicText)
                ELSE buf.arabic,
     english |-> IF HasText(englishText) THEN CumulativeJoin(buf.english, englishText)
                 ELSE buf.english]

\* manageCumulativeTranscription(arabicText, englishText)
ManageCumulativeTranscription(buf, arabicText, englishText) ==
    LET joined == CumulativeJoined(buf, arabicText, englishText)
    IN  [arabic |-> IF HasText(arabicText) THEN CumulativeTruncate(joined.arabic)
                    ELSE buf.arabic,
         english |-> IF HasText(englishText) THEN CumulativeTruncate(joined.english)
                     ELSE buf.english,
         lastUpdate |-> buf.lastUpdate]

\* updateTranscriptionDisplay(): the textContent of one language's element
Displayed(content, placeholder) ==
    LET text == Trim(content)
    IN  IF Truthy(text) THEN text ELSE placeholder

\* 'Waiting for speech...' and 'Waiting for translation...'
ArabicPlaceholder == <<"W", "s">>
EnglishPlaceholder == <<"W", "t">>

\* What the two elements show while nothing was transcribed.  index.html is not
\* among the sources; the click handlers (part_000, lines 524 and 531) take an
\* element that shows its placeholder for one without transcription.
Placeholders == [arabic |-> ArabicPlaceholder, english |-> EnglishPlaceholder]

\* The same without the placeholder: an element whose accumulator is empty
\* keeps the text it shows.
UpdateTranscriptionDisplayKeepsText(shown, buf) ==
    [lang \in {"arabic", "english"} |->
        IF Truthy(Trim(buf[lang])) THEN Trim(buf[lang]) ELSE shown[lang]]

\* updateTranscriptionDisplay(): "if (arabicText !== arabicTranscription.
\* textContent) arabicTranscription.textContent = arabicText || 'Waiting ...'"
UpdateTranscriptionDisplay(shown, buf) ==
    [lang \in {"arabic", "english"} |->
        IF Trim(buf[lang]) # shown[lang]
        THEN Displayed(buf[lang], Placeholders[lang])
        ELSE shown[lang]]

\* part_001, lines 386-393: no fullscreen mode is active; the texts of the three
\* overlays are empty
NoFullscreen ==
    [isFullscreen |-> FALSE, fullscreenLanguage |-> "arabic",
     fullscreenTranscription |-> Empty,
     isIndividualFullscreen |-> FALSE, individualFullscreenType |-> "null",
     arabicFullscreenText |-> Empty, englishFullscreenText |-> Empty]

\* part_001, lines 676-697 (part_000, lines 582-591): the replacement of
\* window.updateTranscription copies the text shown into the overlays of the
\* active modes
MirrorTranscription(fs, shown) ==
    [fs EXCEPT
        !.fullscreenTranscription =
            IF fs.isFullscreen THEN shown[fs.fullscreenLanguage] ELSE @,
        !.arabicFullscreenText =
            IF fs.isIndividualFullscreen /\ fs.individualFullscreenType = "arabic"
            THEN shown.arabic ELSE @,
        !.englishFullscreenText =
            IF fs.isIndividualFullscreen /\ fs.individualFullscreenType # "arabic"
            THEN shown.english ELSE @]

\* script.js, lines 43-65: updateTranscription(data) of the client without a
\* buffer.  arabic and english are currentArabicText and currentEnglishText,
\* which are also the textContent of the two elements once a text was taken.
SimpleTakes(current, text) == Truthy(text) /\ text # current

SimpleTranscription(buf, arabicText, englishText) ==
    [arabic |-> IF SimpleTakes(buf.arabic, arabicText) THEN arabicText ELSE buf.arabic,
     english |-> IF SimpleTakes(buf.english, englishText) THEN englishText
                 ELSE buf.english,
     lastUpdate |-> buf.lastUpdate]

\* the textContent of one language's element in script.js
SimpleDisplayed(current, placeholder) ==
    IF Truthy(current) THEN current ELSE placeholder

\* ---- the inputs of the buffer

Letters == <<"a", "b", "c">>
\* a text of n letters without white space
Text(n) == [i \in 1..n |-> Letters[(i % 3) + 1]]

\* The data of a transcription-update event, <<arabic, english>>; an absent
\* field is the empty string.
UpdateData ==
    { <<Empty, Empty>>,
      <<(<<Space>>), (<<Newline>>)>>,
      <<Empty, Text(5)>>,
      <<Text(3), Text(5)>>,
      <<(<<Space>> \o Text(4) \o <<Newline>>), Empty>>,
      <<Text(120), Text(70) \o ParagraphBreak \o Text(60)>>,
      <<Text(320), Text(250)>> }

\* The data of the updates of a long prayer (cumulative policy): a buffer of
\* 1100 + 1 + 799 = 1900 characters, then 200 more.
PrayerData ==
    { <<Text(1100), Text(1100)>>,
      <<Text(799), Text(799)>>,
      <<Text(200), Text(200)>> }

\* The texts of the updates that arrive while the fullscreen modes are in use
FullscreenData == {<<Text(3), Text(5)>>}

\* Time between two events, in ms
Delays == {0, 1000, 2000, 4000}

\* The same for the cumulative policy, which does not read the clock.
PrayerDelays == {0, 4000}

EmptyBuffer == [arabic |-> Empty, english |-> Empty, lastUpdate |-> 0]

NoOp == [op |-> "none", arabicText |-> Empty, englishText |-> Empty, gap |-> 0,
         prior |-> EmptyBuffer, joined |-> [arabic |-> Empty, english |-> Empty]]

\* Nothing was joined yet and nothing was truncated; callsBefore is the number
\* of calls of processAudioChunk the server had made when the buffer was reset.
NothingHeard == [arabic |-> <<>>, english |-> <<>>,
                 truncated |-> [arabic |-> FALSE, english |-> FALSE],
                 callsBefore |-> 0]

\* The history after an update: a text that is joined is recorded trimmed, and
\* an accumulator whose joined content is longer than its ceiling is truncated.
Hear(h, arabicText, englishText, joined, arabicCeiling, englishCeiling) ==
    [arabic |-> IF HasText(arabicText) THEN Append(h.arabic, Trim(arabicText))
                ELSE h.arabic,
     english |-> IF HasText(englishText) THEN Append(h.english, Trim(englishText))
                 ELSE h.english,
     truncated |->
         [arabic |-> h.truncated.arabic
                     \/ (HasText(arabicText) /\ Len(joined.arabic) > arabicCeiling),
          english |-> h.truncated.english
                      \/ (HasText(englishText) /\ Len(joined.english) > englishCeiling)],
     callsBefore |-> h.callsBefore]

InitBuffer ==
    /\ policy \in {"compact", "cumulative"}
    /\ transcriptionBuffer = EmptyBuffer
    /\ now = 0
    /\ updates = 0
    /\ last = NoOp
    /\ heard = NothingHeard
    /\ textContent = Placeholders
    /\ fullscreen = NoFullscreen

\* part_000: socket.on('transcription-update') -> updateTranscription(data)
\*   -> manageCompactTranscription(data.arabic, data.english, Date.now())
CompactUpdate(data, delay) ==
    /\ policy = "compact"
    /\ updates < MaxUpdates
    /\ now + delay <= MaxTime
    /\ now' = now + delay
    /\ updates' = updates + 1
    /\ transcriptionBuffer' =
           ManageCompactTranscription(transcriptionBuffer, data[1], data[2], now')
    /\ last' = [op |-> "update", arabicText |-> data[1], englishText |-> data[2],
                gap |-> now' - transcriptionBuffer.lastUpdate,
                prior |-> transcriptionBuffer,
                joined |-> CompactJoined(transcriptionBuffer, data[1], data[2], now')]
    /\ heard' = Hear(heard, data[1], data[2],
                     CompactJoined(transcriptionBuffer, data[1], data[2], now'),
                     maxLength, englishMaxLength)
    /\ textContent' = UpdateTranscriptionDisplay(textContent, transcriptionBuffer')
    /\ fullscreen' = MirrorTranscription(fullscreen, textContent')
    /\ UNCHANGED policy
    /\ UNCHANGED <<serverVars, clientVars>>

\* part_001: socket.on('transcription-update') -> updateTranscription(data)
\*   -> manageCumulativeTranscription(data.arabic, data.english), delay ms after
\* the event before (the function does not read the clock)
CumulativeUpdate(data, delay) ==
    /\ policy = "cumulative"
    /\ updates < MaxUpdates
    /\ now + delay <= MaxTime
    /\ now' = now + delay
    /\ updates' = updates + 1
    /\ transcriptionBuffer' =
           ManageCumulativeTranscription(transcriptionBuffer, data[1], data[2])
    /\ last' = [op |-> "update", arabicText |-> data[1], englishText |-> data[2],
                gap |-> delay, prior |-> transcriptionBuffer,
                joined |-> CumulativeJoined(transcriptionBuffer, data[1], data[2])]
    /\ heard' = Hear(heard, data[1], data[2],
                     CumulativeJoined(transcriptionBuffer, data[1], data[2]),
                     maxPrayerLength, maxPrayerLength)
    /\ textContent' = UpdateTranscriptionDisplay(textContent, transcriptionBuffer')
    /\ fullscreen' = MirrorTranscription(fullscreen, textContent')
    /\ UNCHANGED policy
    /\ UNCHANGED <<serverVars, clientVars>>

\* script.js: socket.on('transcription-update') -> updateTranscription(data)
SimpleUpdate(data, delay) ==
    /\ policy = "simple"
    /\ updates < MaxUpdates
    /\ now + delay <= MaxTime
    /\ now' = now + delay
    /\ updates' = updates + 1
    /\ transcriptionBuffer' = SimpleTranscription(transcriptionBuffer, data[1], data[2])
    /\ last' = [op |-> "update", arabicText |-> data[1], englishText |-> data[2],
                gap |-> delay, prior |-> transcriptionBuffer,
                joined |-> [arabic |-> transcriptionBuffer'.arabic,
                            english |-> transcriptionBuffer'.english]]
    /\ heard' = [heard EXCEPT
                    !.arabic = IF SimpleTakes(transcriptionBuffer.arabic, data[1])
                               THEN Append(@, data[1]) ELSE @,
                    !.english = IF SimpleTakes(transcriptionBuffer.english, data[2])
                                THEN Append(@, data[2]) ELSE @]
    /\ textContent' =
           [arabic |-> IF SimpleTakes(transcriptionBuffer.arabic, data[1])
                       THEN data[1] ELSE textContent.arabic,
            english |-> IF SimpleTakes(transcriptionBuffer.english, data[2])
                        THEN data[2] ELSE textContent.english]
    /\ UNCHANGED fullscreen
    /\ UNCHANGED policy
    /\ UNCHANGED <<serverVars, clientVars>>

\* clearTranscriptions(), called by toggleRecording when a recording starts:
\* the buffer is emptied and updateTranscriptionDisplay() is called (script.js
\* writes the placeholders itself)
ClearTranscriptions ==
    /\ transcriptionBuffer' = EmptyBuffer
    /\ last' = [NoOp EXCEPT !.op = "clear", !.prior = transcriptionBuffer]
    /\ heard' = [NothingHeard EXCEPT !.callsBefore = Len(calls)]
    /\ textContent' = IF policy = "simple" THEN Placeholders
                      ELSE UpdateTranscriptionDisplay(textContent, EmptyBuffer)
    /\ UNCHANGED <<policy, now, updates, fullscreen>>

\* a recording starts: toggleRecording calls clearTranscriptions()
ResetOnStart ==
    /\ ClearTranscriptions
    /\ UNCHANGED <<serverVars, clientVars>>

NextBuffer ==
    \/ \E d \in UpdateData : \E delay \in Delays : CompactUpdate(d, delay)
    \/ \E d \in UpdateData \cup PrayerData : \E delay \in PrayerDelays :
           CumulativeUpdate(d, delay)
    \/ ResetOnStart

\* the three client variants: part_000, part_001 and script.js
NextVariants ==
    \/ NextBuffer
    \/ \E d \in UpdateData : \E delay \in PrayerDelays : SimpleUpdate(d, delay)

\* ---- the fullscreen modes (part_001, lines 384-493)

\* enterFullscreen(language)
EnterFullscreen(language) ==
    /\ fullscreen' = [fullscreen EXCEPT
                          !.fullscreenLanguage = language,
                          !.fullscreenTranscription = textContent[language],
                          !.isFullscreen = TRUE]
    /\ UNCHANGED <<policy, transcriptionBuffer, now, updates, last, heard, textContent>>
    /\ UNCHANGED <<serverVars, clientVars>>

\* exitFullscreen() of a mode record
ExitedFullscreen(fs) == [fs EXCEPT !.isFullscreen = FALSE]

\* exitFullscreen(): the overlay click, the exit zone, the auto-exit timer,
\* fullscreenchange and popstate
ExitFullscreen ==
    /\ fullscreen' = ExitedFullscreen(fullscreen)
    /\ UNCHANGED <<policy, transcriptionBuffer, now, updates, last, heard, textContent>>
    /\ UNCHANGED <<serverVars, clientVars>>

\* exitIndividualFullscreen() of a mode record: "if (!isIndividualFullscreen)
\* return;"
ExitedIndividualFullscreen(fs) ==
    IF ~fs.isIndividualFullscreen
    THEN fs
    ELSE [fs EXCEPT !.isIndividualFullscreen = FALSE,
                    !.individualFullscreenType = "null"]

\* enterIndividualFullscreen(type), part_001 only: the existing modes are left,
\* then the text of the box is copied into its overlay
EnterIndividualFullscreen(type) ==
    /\ policy = "cumulative"
    /\ LET left == ExitedIndividualFullscreen(
                       IF fullscreen.isFullscreen
                       THEN ExitedFullscreen(fullscreen) ELSE fullscreen)
       IN  fullscreen' =
               [left EXCEPT
                   !.arabicFullscreenText =
                       IF type = "arabic" THEN textContent.arabic ELSE @,
                   !.englishFullscreenText =
                       IF type = "arabic" THEN @ ELSE textContent.english,
                   !.isIndividualFullscreen = TRUE,
                   !.individualFullscreenType = type]
    /\ UNCHANGED <<policy, transcriptionBuffer, now, updates, last, heard, textContent>>
    /\ UNCHANGED <<serverVars, clientVars>>

\* exitIndividualFullscreen(): the exit zones of the two overlays
ExitIndividualFullscreen ==
    /\ policy = "cumulative"
    /\ fullscreen' = ExitedIndividualFullscreen(fullscreen)
    /\ UNCHANGED <<policy, transcriptionBuffer, now, updates, last, heard, textContent>>
    /\ UNCHANGED <<serverVars, clientVars>>

\* the cumulative client and its fullscreen modes
NextFullscreen ==
    \/ \E language \in {"arabic", "english"} : EnterFullscreen(language)
    \/ ExitFullscreen
    \/ \E type \in {"arabic", "english"} : EnterIndividualFullscreen(type)
    \/ ExitIndividualFullscreen
    \/ \E d \in FullscreenData : CumulativeUpdate(d, 0)

\* ------------------------------------------------------------------ client recording
\* src/unnamed/part_000, lines 163-357 (the same code in part_001 and script.js)

\* A MediaRecorder: state is "recording" from start() to stop(); start() queues
\* the start event; stop() queues a last dataavailable event and the stop event.
NewRecorder == [state |-> "recording", startQueued |-> TRUE, stopQueued |-> "none"]

Capturing == {r \in DOMAIN recorders : recorders[r].state = "recording"}

\* event.data of a dataavailable event: the n-th fragment captured, by recorder r
ClientFragment(n, r) == [id |-> n, rec |-> r]

Log(handler) ==
    [handler |-> handler, wasRecording |-> isRecording, wasCapturing |-> Capturing]

InitClient ==
    /\ isRecording = FALSE
    /\ mediaRecorder = 0
    /\ audioStream = 0
    /\ recorders = <<>>
    /\ chunks = <<>>
    /\ micRequests = 0
    /\ captured = 0
    /\ reads = <<>>
    /\ clicks = 0
    /\ outbox = <<>>
    /\ clientLog = [handler |-> "none", wasRecording |-> FALSE, wasCapturing |-> {}]

\* stopRecording(): what it does to mediaRecorder, audioStream, chunks and the recorder
StopRecording ==
    IF mediaRecorder # 0 /\ isRecording
    THEN \* mediaRecorder.stop(): the variable always names a recorder that records
         /\ recorders' = [recorders EXCEPT ![mediaRecorder] =
                             [@ EXCEPT !.state = "inactive", !.stopQueued = "data"]]
         /\ mediaRecorder' = 0
         /\ chunks' = <<>>
         /\ audioStream' = 0
    ELSE UNCHANGED <<recorders, mediaRecorder, chunks, audioStream>>

\* The same without the call of clearTranscriptions().
ToggleRecordingKeepsTranscript ==
    /\ clicks < MaxClicks
    /\ clicks' = clicks + 1
    /\ clientLog' = Log("toggle")
    /\ IF ~isRecording
       THEN /\ outbox' = Append(outbox, <<"start-recording">>)
            /\ micRequests' = micRequests + 1
            /\ UNCHANGED <<recorders, mediaRecorder, chunks, audioStream, bufferVars>>
       ELSE /\ outbox' = Append(outbox, <<"stop-recording">>)
            /\ StopRecording
            /\ UNCHANGED <<micRequests, bufferVars>>
    /\ UNCHANGED <<isRecording, captured, reads>>
    /\ UNCHANGED serverVars

\* the click handler of the record button -> toggleRecording()
ToggleRecording ==
    /\ clicks < MaxClicks
    /\ clicks' = clicks + 1
    /\ clientLog' = Log("toggle")
    /\ IF ~isRecording
       THEN \* clearTranscriptions(); socket.emit('start-recording');
            \* startRecording() up to "await getUserMedia"
            /\ ClearTranscriptions
            /\ outbox' = Append(outbox, <<"start-recording">>)
            /\ micRequests' = micRequests + 1
            /\ UNCHANGED <<recorders, mediaRecorder, chunks, audioStream>>
       ELSE \* socket.emit('stop-recording'); stopRecording()
            /\ outbox' = Append(outbox, <<"stop-recording">>)
            /\ StopRecording
            /\ UNCHANGED <<micRequests, bufferVars>>
    /\ UNCHANGED <<isRecording, captured, reads>>
    /\ UNCHANGED serverVars

\* getUserMedia resolves: the rest of startRecording()
MicrophoneGranted ==
    /\ micRequests > 0
    /\ micRequests' = micRequests - 1
    /\ recorders' = Append(recorders, NewRecorder)
    /\ mediaRecorder' = Len(recorders) + 1
    /\ audioStream' = Len(recorders) + 1
    /\ clientLog' = Log("granted")
    /\ UNCHANGED <<isRecording, chunks, captured, reads, clicks, outbox, bufferVars>>
    /\ UNCHANGED serverVars

\* getUserMedia rejects: the catch block of startRecording()
MicrophoneDenied ==
    /\ micRequests > 0
    /\ micRequests' = micRequests - 1
    /\ clientLog' = Log("denied")
    /\ UNCHANGED <<isRecording, mediaRecorder, audioStream, recorders, chunks,
                   captured, reads, clicks, outbox, bufferVars>>
    /\ UNCHANGED serverVars

\* mediaRecorder.onstart
OnStart(r) ==
    /\ recorders[r].startQueued
    /\ recorders' = [recorders EXCEPT ![r].startQueued = FALSE]
    /\ isRecording' = TRUE
    /\ clientLog' = Log("onstart")
    /\ UNCHANGED <<mediaRecorder, audioStream, chunks, micRequests, captured,
                   reads, clicks, outbox, bufferVars>>
    /\ UNCHANGED serverVars

\* handleAudioChunk(event) with event.data.size > 0: chunks.push and
\* sendAudioChunk up to reader.readAsArrayBuffer
HandleAudioChunk(fragment) ==
    /\ chunks' = Append(chunks, fragment)
    /\ reads' = Append(reads, <<fragment>>)

\* mediaRecorder.ondataavailable, fired every 500 ms while the recorder records
DataAvailable(r) ==
    /\ recorders[r].state = "recording"
    /\ ~recorders[r].startQueued
    /\ captured < MaxCaptured
    /\ captured' = captured + 1
    /\ HandleAudioChunk(ClientFragment(captured + 1, r))
    /\ clientLog' = Log("data")
    /\ UNCHANGED <<isRecording, mediaRecorder, audioStream, recorders,
                   micRequests, clicks, outbox, bufferVars>>
    /\ UNCHANGED serverVars

\* the dataavailable event that stop() queues, with the data recorded since the
\* last one (hasData) or with an empty blob
LastDataAvailable(r, hasData) ==
    /\ recorders[r].stopQueued = "data"
    /\ ~recorders[r].startQueued
    /\ recorders' = [recorders EXCEPT ![r].stopQueued = "stop"]
    /\ IF hasData /\ captured < MaxCaptured
       THEN /\ captured' = captured + 1
            /\ HandleAudioChunk(ClientFragment(captured + 1, r))
       ELSE UNCHANGED <<captured, chunks, reads>>
    /\ clientLog' = Log("lastdata")
    /\ UNCHANGED <<isRecording, mediaRecorder, audioStream, micRequests, clicks,
                   outbox, bufferVars>>
    /\ UNCHANGED serverVars

\* mediaRecorder.onstop
OnStop(r) ==
    /\ recorders[r].stopQueued = "stop"
    /\ recorders' = [recorders EXCEPT ![r].stopQueued = "done"]
    /\ isRecording' = FALSE
    /\ audioStream' = 0
    /\ IF Len(chunks) > 0
       THEN \* sendAudioChunk(new Blob(chunks)); chunks = []
            /\ reads' = Append(reads, chunks)
            /\ chunks' = <<>>
       ELSE UNCHANGED <<reads, chunks>>
    /\ clientLog' = Log("onstop")
    /\ UNCHANGED <<mediaRecorder, micRequests, captured, clicks, outbox, bufferVars>>
    /\ UNCHANGED serverVars

\* reader.onloadend of sendAudioChunk: socket.emit('audio-chunk', uint8Array)
ReaderLoadEnd(i) ==
    /\ outbox' = Append(outbox, <<"audio-chunk", reads[i]>>)
    /\ reads' = [j \in 1..(Len(reads) - 1) |-> IF j < i THEN reads[j] ELSE reads[j + 1]]
    /\ clientLog' = Log("loadend")
    /\ UNCHANGED <<isRecording, mediaRecorder, audioStream, recorders, chunks,
                   micRequests, captured, clicks, bufferVars>>
    /\ UNCHANGED serverVars

\* socket.on('error'): showStatus; stopRecording(); updateButtonState('idle')
OnServerError ==
    /\ StopRecording
    /\ clientLog' = Log("error")
    /\ UNCHANGED <<isRecording, micRequests, captured, reads, clicks, outbox, bufferVars>>
    /\ UNCHANGED serverVars

\* socket.on('disconnect'): showStatus; stopRecording(); updateButtonState('idle')
OnDisconnect ==
    /\ StopRecording
    /\ clientLog' = Log("disconnect")
    /\ UNCHANGED <<isRecording, micRequests, captured, reads, clicks, outbox, bufferVars>>
    /\ UNCHANGED serverVars

\* the stop-recording events emitted so far
StopsSignalled ==
    Cardinality({i \in DOMAIN outbox : outbox[i] = <<"stop-recording">>})

\* document 'visibilitychange' with document.hidden: "if (document.hidden &&
\* isRecording) toggleRecording()", which takes its stop branch
PageHidden ==
    /\ isRecording
    /\ StopsSignalled < MaxStops
    /\ clientLog' = Log("hidden")
    /\ outbox' = Append(outbox, <<"stop-recording">>)
    /\ StopRecording
    /\ UNCHANGED <<isRecording, micRequests, captured, reads, clicks, bufferVars>>
    /\ UNCHANGED serverVars

\* mediaRecorder.onerror of recorder r: showStatus; stopRecording()
RecorderError(r) ==
    /\ recorders[r].state = "recording"
    /\ StopRecording
    /\ clientLog' = Log("recordererror")
    /\ UNCHANGED <<isRecording, micRequests, captured, reads, clicks, outbox, bufferVars>>
    /\ UNCHANGED serverVars

NextClient ==
    \/ ToggleRecording
    \/ MicrophoneGranted
    \/ MicrophoneDenied
    \/ \E r \in DOMAIN recorders : OnStart(r)
    \/ \E r \in DOMAIN recorders : DataAvailable(r)
    \/ \E r \in DOMAIN recorders : \E hasData \in BOOLEAN : LastDataAvailable(r, hasData)
    \/ \E r \in DOMAIN recorders : OnStop(r)
    \/ \E i \in DOMAIN reads : ReaderLoadEnd(i)
    \/ OnServerError
    \/ OnDisconnect

\* the recording controller with the events of the document and of the recorder
NextPage ==
    \/ NextClient
    \/ PageHidden
    \/ \E r \in DOMAIN recorders : RecorderError(r)

\* ---- the client with its transcript buffer

\* the audio-chunk events emitted so far
AudioChunksSent ==
    Cardinality({i \in DOMAIN outbox : outbox[i][1] = "audio-chunk"})

\* The data of the updates of a session, and the time between two of them.
SessionData == {<<Text(3), Text(5)>>}
SessionDelay == 1000

\* socket.on('transcription-update') of either client variant.  The server
\* emits at most one transcription-update per audio-chunk event, to the socket
\* that sent it (README.md, lines 270-279 and 319-330).
SessionUpdate(data) ==
    /\ updates < AudioChunksSent
    /\ \/ CompactUpdate(data, SessionDelay)
       \/ CumulativeUpdate(data, SessionDelay)

NextSession ==
    \/ NextClient
    \/ \E d \in SessionData : SessionUpdate(d)

\* ---- one page and the server

\* the connection of the page
Page == "c1"

\* The same with the events handled in the order in which their batches were
\* submitted.
DeliverUpdateInSubmissionOrder ==
    \E b \in DOMAIN calls :
        /\ conn[Page] = "connected"
        /\ calls[b].sock = Page
        /\ calls[b].emitSeq > 0
        /\ Cardinality({i \in 1..(b - 1) : calls[i].sock = Page /\ calls[i].emitSeq > 0})
               = updates
        /\ Cardinality(EmittedTo(Page)) > updates
        /\ CompactUpdate(<<calls[b].transcription, calls[b].translation>>, SessionDelay)

\* The page handles the next transcription-update event that was emitted to
\* it: the events of a connection arrive in the order of their emission, as
\* long as the connection is there.
DeliverUpdate ==
    \E b \in DOMAIN calls :
        /\ conn[Page] = "connected"
        /\ calls[b].sock = Page
        /\ calls[b].emitSeq = updates + 1
        /\ CompactUpdate(<<calls[b].transcription, calls[b].translation>>, SessionDelay)

NextPipeline ==
    \/ Connect(Page)
    \/ StartRecordingHandler(Page)
    \/ AudioChunkHandler(Page, 1)
    \/ \E b \in DOMAIN calls : \E r \in RecognizerResponses : RecognizeReturn(b, r)
    \/ \E b \in DOMAIN calls : RecognizeFail(b)
    \/ \E b \in DOMAIN calls : \E t \in Translations : TranslateReturn(b, t)
    \/ \E b \in DOMAIN calls : TranslateFail(b)
    \/ StopRecordingHandler(Page)
    \/ DisconnectHandler(Page)
    \/ DeliverUpdate

\* ---- the page and the server: the events the page emits are handled by the
\* server in the order of their emission

\* the events of the page that the server has handled
Handled == Len(received) + Requests(Page)

\* the server handles the next event of the page, a start-recording
ServerStartRecording ==
    /\ Handled < Len(outbox)
    /\ outbox[Handled + 1] = <<"start-recording">>
    /\ StartRecordingHandler(Page)

\* the server handles the next event of the page, an audio-chunk
ServerAudioChunk ==
    /\ Handled < Len(outbox)
    /\ outbox[Handled + 1][1] = "audio-chunk"
    /\ AudioChunkHandler(Page, 1)

\* the server handles the next event of the page, a stop-recording
ServerStopRecording ==
    /\ Handled < Len(outbox)
    /\ outbox[Handled + 1] = <<"stop-recording">>
    /\ StopRecordingHandler(Page)

NextSystem ==
    \/ Connect(Page)
    \/ ToggleRecording
    \/ PageHidden
    \/ MicrophoneGranted
    \/ MicrophoneDenied
    \/ \E r \in DOMAIN recorders : OnStart(r)
    \/ \E r \in DOMAIN recorders : DataAvailable(r)
    \/ \E r \in DOMAIN recorders : \E hasData \in BOOLEAN : LastDataAvailable(r, hasData)
    \/ \E r \in DOMAIN recorders : OnStop(r)
    \/ \E i \in DOMAIN reads : ReaderLoadEnd(i)
    \/ ServerStartRecording
    \/ ServerAudioChunk
    \/ ServerStopRecording
    \/ \E b \in DOMAIN calls : \E r \in RecognizerResponses : RecognizeReturn(b, r)
    \/ \E b \in DOMAIN calls : RecognizeFail(b)
    \/ \E b \in DOMAIN calls : \E t \in Translations : TranslateReturn(b, t)
    \/ \E b \in DOMAIN calls : TranslateFail(b)
    \/ DeliverUpdate

\* ---- one recording session of the page, from the server's side: the page
\* sends fragments and neither starts or stops a recording nor disconnects

NextStreaming ==
    \/ Connect(Page)
    \/ AudioChunkHandler(Page, 1)
    \/ \E b \in DOMAIN calls : \E r \in RecognizerResponses : RecognizeReturn(b, r)
    \/ \E b \in DOMAIN calls : RecognizeFail(b)
    \/ \E b \in DOMAIN calls : \E t \in Translations : TranslateReturn(b, t)
    \/ \E b \in DOMAIN calls : TranslateFail(b)

\* ---- the server and a client that is not one of this repository

\* the connection of that client
Guest == "c2"

NextGuest ==
    \/ Connect(Guest)
    \/ StartRecordingHandler(Guest)
    \/ \E audioData \in AudioData : AudioChunkHandler(Guest, audioData)
    \/ \E b \in DOMAIN calls : \E r \in RecognizerResponses : RecognizeReturn(b, r)
    \/ \E b \in DOMAIN calls : RecognizeFail(b)
    \/ \E b \in DOMAIN calls : \E t \in Translations : TranslateReturn(b, t)
    \/ \E b \in DOMAIN calls : TranslateFail(b)
    \/ StopRecordingHandler(Guest)
    \/ DisconnectHandler(Guest)

\* ------------------------------------------------------------------ specifications

\* The state after the server has started and the page has loaded.
Init == InitServer /\ InitClient /\ InitBuffer

\* the same with the compact client loaded
InitCompact == Init /\ policy = "compact"

\* the same with the cumulative client loaded
InitCumulative == Init /\ policy = "cumulative"

\* The state after the page has loaded, in any of the three client variants.
InitVariants ==
    /\ InitServer
    /\ InitClient
    /\ policy \in {"compact", "cumulative", "simple"}
    /\ transcriptionBuffer = EmptyBuffer
    /\ now = 0
    /\ updates = 0
    /\ last = NoOp
    /\ heard = NothingHeard
    /\ textContent = Placeholders
    /\ fullscreen = NoFullscreen

\* the server alone: the clients' events arrive in any order
SpecServer == InitCompact /\ [][NextServer]_vars

\* the transcript buffer alone: the updates arrive at any time with any text
SpecBuffer == Init /\ [][NextBuffer]_vars

\* the transcript display of the three client variants
SpecVariants == InitVariants /\ [][NextVariants]_vars

\* the recording controller of the client alone
SpecClient == InitCompact /\ [][NextClient]_vars

\* the recording controller of the client with every event that stops capture
SpecPage == InitCompact /\ [][NextPage]_vars

\* the client of either variant: the recording controller and the updates of
\* the transcript buffer
SpecSession == Init /\ [][NextSession]_vars

\* the server with one connection whose audio-chunk events carry any data,
\* empty data included
SpecGuest == InitCompact /\ [][NextGuest]_vars

\* The state after the server has started and the compact client has loaded,
\* the connections being observed.
InitSystem == InitObserved /\ InitClient /\ InitBuffer /\ policy = "compact"

\* the page of the compact client and the server
SpecSystem == InitSystem /\ [][NextSystem]_vars

\* the server during one recording session of one page
SpecStreaming == InitCompact /\ [][NextStreaming]_vars

\* one page of the compact client and the server: the events of the page are
\* handled by the server in any order, the updates of the server by the page
SpecPipeline == InitCompact /\ [][NextPipeline]_vars

\* the cumulative client with its fullscreen modes
SpecFullscreen == InitCumulative /\ [][NextFullscreen]_vars

\* the server alone, with the requests and acknowledgements of every connection
\* recorded
SpecObserved == InitSystem /\ [][NextObserved]_vars


\* ------------------------------------------------------------------ properties

Done(c) == c.pc = "done"

\* C1: no fragment is ever included in more than one batch submitted to the
\* recognition pipeline.
C1_NoFragmentInTwoBatches ==
    \A i, j \in DOMAIN calls :
        i # j => FragmentIds(calls[i].batch) \cap FragmentIds(calls[j].batch) = {}

\* C2: every batch submitted to the pipeline consists of exactly 2 fragments,
\* also when fragments arrive while an earlier pipeline call is pending.
C2_BatchesOfExactlyTwo ==
    \A b \in DOMAIN calls : Len(calls[b].batch) = BatchThreshold

\* the pending fragments of one connection
Pending(buffers, s) == SelectSeq(buffers, LAMBDA f : f.sock = s)

\* C3: sessions are independent per connection: a batch holds fragments of one
\* connection only, the one its result is emitted to, and a start-recording,
\* stop-recording or disconnect of one connection leaves the pending fragments
\* of every other connection unchanged.
C3_SessionsIndependent ==
    [][/\ \A b \in DOMAIN calls' : \A i \in DOMAIN calls'[b].batch :
              calls'[b].batch[i].sock = calls'[b].sock
       /\ \A s \in Sockets :
              (StartRecordingHandler(s) \/ StopRecordingHandler(s) \/ DisconnectHandler(s))
              => \A t \in Sockets \ {s} :
                     Pending(audioBuffers', t) = Pending(audioBuffers, t)]_vars

\* C4: a recognition result that is empty or white space only never triggers a
\* translation call and never produces a transcription-update.
C4_BlankResultNoTranslation ==
    \A b \in DOMAIN calls :
        (calls[b].recognized /\ Trim(calls[b].transcription) = <<>>)
        => (calls[b].translateCalls = 0 /\ calls[b].updates = 0)

\* C5: each batch has at most one outcome event: one error and no update when
\* the recognizer or the translator fails, one update and no error when both
\* succeed with a non-empty transcript; the recognizer is called once, the
\* translator at most once and only after the recognizer returned.
C5_OneOutcomePerBatch ==
    \A b \in DOMAIN calls :
        LET c == calls[b]
        IN  /\ c.recognizeCalls = 1
            /\ c.translateCalls <= 1
            /\ c.translateCalls = 1 => c.recognized
            /\ c.updates + c.errors <= 1
            /\ ~Done(c) => c.updates + c.errors = 0
            /\ c.failed # "none" => (c.errors = 1 /\ c.updates = 0)
            /\ (Done(c) /\ c.failed = "none" /\ Len(c.transcription) > 0)
               => (c.updates = 1 /\ c.errors = 0 /\ c.translateCalls = 1)

\* C5 happens: one batch failed in the translator and got its error, another
\* one got its update.
C5_Witness ==
    \E b1, b2 \in DOMAIN calls :
        /\ calls[b1].failed = "translate" /\ calls[b1].errors = 1
        /\ calls[b2].failed = "none" /\ calls[b2].updates = 1

\* batches of connection s for which an error event was emitted
ErrorsTo(s) == {b \in DOMAIN calls : calls[b].sock = s /\ calls[b].errors > 0}

\* C6: a pipeline failure does not end the session: the step that emits the
\* error leaves every connection as it is, and a fragment that arrives on a
\* connection after an error was emitted to it is appended to the pending list
\* and submitted with it when the list has reached the threshold.
C6_FailureKeepsSession ==
    [][/\ (\E b \in DOMAIN calls : calls'[b].errors > calls[b].errors) => conn' = conn
       /\ (Len(received') = Len(received) + 1 /\ ErrorsTo(received'[Len(received')]) # {})
          => LET s == received'[Len(received')]
                 f == Fragment(Len(received'), s, 1)
             IN  /\ audioBuffers' = Append(audioBuffers, f)
                 /\ Len(audioBuffers') >= BatchThreshold
                    => /\ Len(calls') = Len(calls) + 1
                       /\ calls'[Len(calls')].batch = audioBuffers'
                       /\ calls'[Len(calls')].pc = "recognize"]_vars

\* C6 happens: after the error of one batch, a batch of the same connection has
\* just been submitted.  The step that emits an error empties the pending list,
\* so the fragments of a batch that is the pending list all arrived after it.
C6_Witness ==
    \E b1, b2 \in DOMAIN calls :
        /\ b1 < b2
        /\ calls[b1].errors = 1
        /\ calls[b2].sock = calls[b1].sock
        /\ calls[b2].pc = "recognize"
        /\ calls[b2].batch = audioBuffers
        /\ \A i \in DOMAIN audioBuffers : audioBuffers[i].sock = calls[b1].sock

\* C7: when the client handles an error event while it is recording, capture
\* is not stopped: the recorders that were capturing still are.
C7_ErrorKeepsRecording ==
    (clientLog.handler = "error" /\ clientLog.wasRecording
        /\ clientLog.wasCapturing # {})
    => Capturing = clientLog.wasCapturing

\* the last buffer operation was an update of the compact policy
CompactUpdated == policy = "compact" /\ last.op = "update"

\* C8: in the compact policy, after an update whose appended content exceeds
\* the ceiling, the length of the result is at most the ceiling plus 3.
C8_TruncatedLengthBounded ==
    CompactUpdated =>
        /\ (HasText(last.arabicText) /\ Len(last.joined.arabic) > maxLength)
           => Len(transcriptionBuffer.arabic) <= maxLength + 3
        /\ (HasText(last.englishText) /\ Len(last.joined.english) > englishMaxLength)
           => Len(transcriptionBuffer.english) <= englishMaxLength + 3

\* result is "..." followed by the last characters of pre
IsEllipsisSuffix(result, pre) ==
    /\ Len(result) >= 3
    /\ Len(result) - 3 <= Len(pre)
    /\ SubSeq(result, 1, 3) = Ellipsis
    /\ SubSeq(result, 4, Len(result)) = SubSeq(pre, Len(pre) - (Len(result) - 3) + 1, Len(pre))

\* the length above which the policy truncates an accumulator
Ceiling(lang) ==
    IF policy = "cumulative" THEN maxPrayerLength
    ELSE IF lang = "arabic" THEN maxLength ELSE englishMaxLength

\* C9: in both policies, whenever truncation happens the result is "..."
\* followed by a suffix of the content as it was after the new text was appended.
C9_TruncationKeepsSuffix ==
    last.op = "update" =>
        /\ (HasText(last.arabicText) /\ Len(last.joined.arabic) > Ceiling("arabic"))
           => IsEllipsisSuffix(transcriptionBuffer.arabic, last.joined.arabic)
        /\ (HasText(last.englishText) /\ Len(last.joined.english) > Ceiling("english"))
           => IsEllipsisSuffix(transcriptionBuffer.english, last.joined.english)

\* C9 happens: the compact policy truncated the Arabic accumulator at a
\* paragraph break.
C9_Witness ==
    /\ CompactUpdated
    /\ HasText(last.arabicText)
    /\ Len(last.joined.arabic) > maxLength
    /\ Len(transcriptionBuffer.arabic) >= 5
    /\ SubSeq(transcriptionBuffer.arabic, 1, 5) = Ellipsis \o ParagraphBreak

\* the text was joined to the trimmed prior content with one space
JoinedWithSpace(joined, prior, text) ==
    joined = Trim(prior) \o <<Space>> \o Trim(text)

\* C10 as stated: in the compact policy every update with non-empty text and
\* gap < pauseThreshold joins the text with a single space, in the Arabic and in
\* the English accumulator.
C10_ShortGapJoinsWithSpace ==
    (CompactUpdated /\ last.gap < pauseThreshold) =>
        /\ HasText(last.arabicText)
           => JoinedWithSpace(last.joined.arabic, last.prior.arabic, last.arabicText)
        /\ HasText(last.englishText)
           => JoinedWithSpace(last.joined.english, last.prior.english, last.englishText)

\* C10 amended: the same for the updates that find the Arabic accumulator
\* non-empty (after trimming).
C10_ShortGapJoinsWithSpaceWhenActive ==
    (CompactUpdated /\ last.gap < pauseThreshold /\ Len(Trim(last.prior.arabic)) > 0) =>
        /\ HasText(last.arabicText)
           => JoinedWithSpace(last.joined.arabic, last.prior.arabic, last.arabicText)
        /\ HasText(last.englishText)
           => JoinedWithSpace(last.joined.english, last.prior.english, last.englishText)

\* C10 happens: an update with both texts within the pause threshold found
\* both accumulators non-empty.
C10_Witness ==
    /\ CompactUpdated
    /\ last.gap < pauseThreshold
    /\ Len(Trim(last.prior.arabic)) > 0
    /\ Len(Trim(last.prior.english)) > 0
    /\ HasText(last.arabicText)
    /\ HasText(last.englishText)

\* the text was joined to the trimmed prior content with a paragraph break
JoinedWithBreak(joined, prior, text) ==
    joined = Trim(prior) \o ParagraphBreak \o Trim(text)

\* C11: in the compact policy every update with non-empty text and
\* gap >= pauseThreshold (a gap of exactly 2000 ms included) that finds the
\* accumulator non-empty joins the text after a paragraph break, not a space;
\* the joined content is the content of the accumulator unless it is truncated.
C11_LongGapStartsParagraph ==
    (CompactUpdated /\ last.gap >= pauseThreshold) =>
        /\ (HasText(last.arabicText) /\ Len(Trim(last.prior.arabic)) > 0)
           => /\ JoinedWithBreak(last.joined.arabic, last.prior.arabic, last.arabicText)
              /\ Len(last.joined.arabic) <= maxLength
                 => transcriptionBuffer.arabic = last.joined.arabic
        /\ (HasText(last.englishText) /\ Len(Trim(last.prior.english)) > 0)
           => /\ JoinedWithBreak(last.joined.english, last.prior.english, last.englishText)
              /\ Len(last.joined.english) <= englishMaxLength
                 => transcriptionBuffer.english = last.joined.english

\* C11 happens: an update with both texts arrived exactly pauseThreshold ms after
\* the last one and found both accumulators non-empty.
C11_Witness ==
    /\ CompactUpdated
    /\ last.gap = pauseThreshold
    /\ Len(Trim(last.prior.arabic)) > 0
    /\ Len(Trim(last.prior.english)) > 0
    /\ HasText(last.arabicText)
    /\ HasText(last.englishText)

\* the three updates of the example: A at t = 0, B at t = 1000, C at t = 5000
ExampleA == <<Text(3), Text(5)>>
ExampleB == <<Text(120), Text(70) \o ParagraphBreak \o Text(60)>>
ExampleC == <<Text(3), Text(5)>>

\* the buffer of the example after A and after B
ExampleAfterA ==
    [arabic |-> ParagraphBreak \o ExampleA[1],
     english |-> ParagraphBreak \o ExampleA[2],
     lastUpdate |-> 0]
ExampleAfterB ==
    [arabic |-> ExampleA[1] \o <<Space>> \o ExampleB[1],
     english |-> ExampleA[2] \o <<Space>> \o ExampleB[2],
     lastUpdate |-> 1000]
ExampleAfterC ==
    [arabic |-> ExampleAfterB.arabic \o ParagraphBreak \o ExampleC[1],
     english |-> ExampleAfterB.english \o ParagraphBreak \o ExampleC[2],
     lastUpdate |-> 5000]

\* the last update handled data at time t and found the buffer buf
ExampleStep(buf, data, t) ==
    /\ CompactUpdated
    /\ last.prior = buf
    /\ last.arabicText = data[1]
    /\ last.englishText = data[2]
    /\ now = t

HasParagraphBreak(s) ==
    \E k \in 1..(Len(s) - 1) : s[k] = Newline /\ s[k + 1] = Newline

\* C12: the example of the compact policy.  On the empty buffer (lastUpdate 0)
\* the update A at t = 0 gives a paragraph break followed by A, displayed as A;
\* B at t = 1000 then gives A, one space, B without a paragraph break; C at
\* t = 5000 then gives A, space, B, paragraph break, C.
C12_CompactExample ==
    /\ ExampleStep(EmptyBuffer, ExampleA, 0)
       => /\ transcriptionBuffer = ExampleAfterA
          /\ Displayed(transcriptionBuffer.arabic, ArabicPlaceholder) = ExampleA[1]
          /\ Displayed(transcriptionBuffer.english, EnglishPlaceholder) = ExampleA[2]
    /\ ExampleStep(ExampleAfterA, ExampleB, 1000)
       => /\ transcriptionBuffer = ExampleAfterB
          /\ ~HasParagraphBreak(transcriptionBuffer.arabic)
    /\ ExampleStep(ExampleAfterB, ExampleC, 5000)
       => transcriptionBuffer = ExampleAfterC

\* C12 happens: the third update of the example has been handled.
C12_Witness ==
    /\ ExampleStep(ExampleAfterB, ExampleC, 5000)
    /\ heard.arabic = <<ExampleA[1], ExampleB[1], ExampleC[1]>>

\* C13: in the cumulative policy no accumulator is ever longer than 2000
\* characters.
C13_CumulativeLengthBounded ==
    policy = "cumulative" =>
        /\ Len(transcriptionBuffer.arabic) <= maxPrayerLength
        /\ Len(transcriptionBuffer.english) <= maxPrayerLength

\* C13 happens: an update made both accumulators longer than 2000 characters.
C13_Witness ==
    /\ policy = "cumulative"
    /\ last.op = "update"
    /\ Len(last.joined.arabic) > maxPrayerLength
    /\ Len(last.joined.english) > maxPrayerLength

\* the last n characters of s, for a string of more than n characters
LastChars(s, n) == SubSeq(s, Len(s) - n + 1, Len(s))

\* C14: in the cumulative policy, whenever the content after appending is longer
\* than 2000 characters the result is "..." followed by the last 1500 characters
\* of that content, 1503 characters in all; so it is when 200 characters are
\* appended to a buffer of 1900 characters.
C14_CumulativeTruncatesTo1503 ==
    (policy = "cumulative" /\ last.op = "update") =>
        /\ (HasText(last.arabicText) /\ Len(last.joined.arabic) > 2000)
           => /\ transcriptionBuffer.arabic = Ellipsis \o LastChars(last.joined.arabic, 1500)
              /\ Len(transcriptionBuffer.arabic) = 1503
        /\ (HasText(last.englishText) /\ Len(last.joined.english) > 2000)
           => /\ transcriptionBuffer.english = Ellipsis \o LastChars(last.joined.english, 1500)
              /\ Len(transcriptionBuffer.english) = 1503
        /\ (Len(last.prior.arabic) = 1900 /\ Len(Trim(last.arabicText)) = 200)
           => Len(transcriptionBuffer.arabic) = 1503
        /\ (Len(last.prior.english) = 1900 /\ Len(Trim(last.englishText)) = 200)
           => Len(transcriptionBuffer.english) = 1503

\* C14 happens: 200 characters were appended to a buffer of 1900 characters.
C14_Witness ==
    /\ policy = "cumulative"
    /\ last.op = "update"
    /\ Len(last.prior.arabic) = 1900
    /\ Len(Trim(last.arabicText)) = 200

\* C15: in the cumulative policy a non-empty text is appended to non-empty
\* content after exactly one space (the content does not end with white space
\* and the appended text does not start with it), whatever the time between the
\* updates; as long as an accumulator has not been truncated its content is the
\* trimmed non-empty texts joined by single spaces in the order of arrival.
C15_CumulativeSingleSpace ==
    policy = "cumulative" =>
        /\ ~heard.truncated.arabic
           => transcriptionBuffer.arabic = Join(heard.arabic, <<Space>>)
        /\ ~heard.truncated.english
           => transcriptionBuffer.english = Join(heard.english, <<Space>>)
        /\ last.op = "update" =>
            /\ (HasText(last.arabicText) /\ Truthy(Trim(last.prior.arabic)))
               => /\ last.joined.arabic
                         = last.prior.arabic \o <<Space>> \o Trim(last.arabicText)
                  /\ last.prior.arabic[Len(last.prior.arabic)] \notin WhiteSpace
            /\ (HasText(last.englishText) /\ Truthy(Trim(last.prior.english)))
               => /\ last.joined.english
                         = last.prior.english \o <<Space>> \o Trim(last.englishText)
                  /\ last.prior.english[Len(last.prior.english)] \notin WhiteSpace

\* C15 happens: a third text was appended 4000 ms after the second one and
\* nothing has been truncated.
C15_Witness ==
    /\ policy = "cumulative"
    /\ last.op = "update"
    /\ last.gap = 4000
    /\ HasText(last.arabicText)
    /\ HasText(last.englishText)
    /\ Len(heard.arabic) >= 3
    /\ Len(heard.english) >= 3
    /\ ~heard.truncated.arabic
    /\ ~heard.truncated.english

\* C16: at most one recording capture is active at any time, whatever the
\* toggles of the record button: there are never two media recorders capturing.
C16_AtMostOneCapture ==
    Cardinality(Capturing) <= 1

\* the start-recording events emitted so far
StartsSignalled ==
    Cardinality({i \in DOMAIN outbox : outbox[i][1] = "start-recording"})

\* C17: when microphone acquisition fails the session never starts: no
\* start-recording was signalled for that attempt (the start-recording events
\* are those of the attempts that got or still wait for the microphone), no
\* capture was started and the recording flag is as it was.
C17_DeniedNeverStarts ==
    clientLog.handler = "denied" =>
        /\ StartsSignalled <= Len(recorders) + micRequests
        /\ Capturing = clientLog.wasCapturing
        /\ isRecording = clientLog.wasRecording

\* the audio-chunk events that carry the fragment with id f
SentIn(f) ==
    {i \in DOMAIN outbox :
        /\ outbox[i][1] = "audio-chunk"
        /\ \E k \in DOMAIN outbox[i][2] : outbox[i][2][k].id = f}

\* C18: no captured fragment is transmitted to the server twice: the data
\* flushed when capture stops was not sent before.
C18_FragmentSentOnce ==
    \A f \in 1..captured : Cardinality(SentIn(f)) <= 1

\* C19: a stop-recording that the server handles while fewer than 2 fragments
\* are pending discards them: none of them is pending after the handler (the
\* list, which held only them, is empty) and none of them is part of any batch.
C19_StopDiscardsPending ==
    \A f \in discarded :
        /\ f \notin FragmentIds(audioBuffers)
        /\ \A b \in DOMAIN calls : f \notin FragmentIds(calls[b].batch)

\* C19 happens: a stop-recording discarded a pending fragment, and a batch of
\* later fragments has been submitted since.
C19_Witness ==
    /\ discarded # {}
    /\ \E b \in DOMAIN calls :
           \A f \in discarded : \A g \in FragmentIds(calls[b].batch) : f < g

\* the start-recording events emitted before the i-th event of the outbox
StartsBefore(i) ==
    Cardinality({j \in 1..(i - 1) : outbox[j][1] = "start-recording"})

\* Every attempt to start (a recorder, or a request that waits for the
\* microphone) had its start-recording emitted, and an audio-chunk event with a
\* fragment of the r-th recorder comes after at least r start-recording events.
StartPrecedesChunks ==
    /\ Len(recorders) + micRequests <= StartsSignalled
    /\ \A i \in DOMAIN outbox :
           outbox[i][1] = "audio-chunk"
           => \A k \in DOMAIN outbox[i][2] : outbox[i][2][k].rec <= StartsBefore(i)

\* C20: on every start of a recording (a click while isRecording is false) the
\* client resets both accumulators to empty and lastUpdate to 0 and emits
\* start-recording, and start-recording is emitted before any audio-chunk of
\* that session.
C20_StartResetsAndSignals ==
    [][/\ (clicks' = clicks + 1 /\ ~isRecording)
          => /\ transcriptionBuffer' = EmptyBuffer
             /\ outbox' = Append(outbox, <<"start-recording">>)
       /\ StartPrecedesChunks']_vars

\* C20 happens: after a fragment was sent and an update was displayed, a new
\* start has just reset the buffer and emitted start-recording.
C20_Witness ==
    /\ last.op = "clear"
    /\ Truthy(last.prior.arabic)
    /\ Truthy(last.prior.english)
    /\ last.prior.lastUpdate > 0
    /\ AudioChunksSent > 0
    /\ outbox[Len(outbox)] = <<"start-recording">>

\* a recorder that records stops in this step (stopRecording() acted)
CaptureStops ==
    \E r \in DOMAIN recorders :
        recorders[r].state = "recording" /\ recorders'[r].state = "inactive"

\* C21: when the client stops a recording, the transcript buffer is reset:
\* both accumulators are empty after the stop.
C21_StopResetsBuffer ==
    [][CaptureStops
       => /\ transcriptionBuffer'.arabic = Empty
          /\ transcriptionBuffer'.english = Empty]_vars

\* C22: a disconnect forces the session to stop: no recorder records after the
\* client has handled the disconnect event, and none starts to record afterwards
\* unless the user clicks the button again, also when the disconnect was handled
\* while startRecording() waited for the microphone.
C22_DisconnectForcesStop ==
    [][/\ clientLog'.handler = "disconnect" => Capturing' = {}
       /\ (clientLog.handler = "disconnect" /\ clicks' = clicks) => Capturing' = {}]_vars

\* the calls of the page whose transcription-update the page has handled
Delivered ==
    {b \in DOMAIN calls :
        calls[b].sock = Page /\ calls[b].emitSeq >= 1 /\ calls[b].emitSeq <= updates}

\* C23: batches are in the pipeline concurrently and their updates reach the
\* buffer in the order of completion, not of submission: a call that ends with
\* a translation emits its update at once, whatever calls submitted earlier are
\* doing, the events emitted to the page are numbered in the order of emission,
\* and the update the page handled last is the one emitted last among those it
\* has handled.
C23_UpdatesInCompletionOrder ==
    /\ \A b \in DOMAIN calls :
           (Done(calls[b]) /\ calls[b].failed = "none" /\ Truthy(calls[b].transcription))
           => calls[b].emitSeq >= 1
    /\ {calls[b].emitSeq : b \in EmittedTo(Page)} = 1..Cardinality(EmittedTo(Page))
    /\ updates <= Cardinality(EmittedTo(Page))
    /\ last.op = "update"
       => \E b \in Delivered :
              /\ calls[b].emitSeq = updates
              /\ last.arabicText = calls[b].transcription
              /\ last.englishText = calls[b].translation
    /\ Len(heard.english) = Cardinality(Delivered)

\* C23 happens: two batches were pending at the same time, and the update of
\* the one submitted later was emitted first and joined to the buffer first;
\* the texts of both are in the buffer now.
C23_Witness ==
    \E b1, b2 \in Delivered :
        /\ b1 < b2
        /\ calls[b2].emitSeq < calls[b1].emitSeq
        /\ calls[b1].emitSeq = updates
        /\ calls[b1].transcription = Word
        /\ calls[b2].transcription = Word
        /\ heard.arabic = <<Word, Word>>
        /\ transcriptionBuffer.arabic = Word \o <<Space>> \o Word

\* fragments that a stop-recording discarded and that arrived after batch b was
\* submitted: that stop-recording was handled after the submission
DiscardedSince(b, fragments) ==
    {f \in fragments : \A g \in FragmentIds(calls[b].batch) : g < f}

\* C24: a stop-recording does not cancel the calls in flight and nothing gates
\* the emission: when the translation of a call returns after a stop-recording
\* was handled behind its submission, the update is emitted all the same, and
\* the page joins every update it handles to its buffer (its handler does not
\* read the state of the recording).
C24_LateUpdateEmittedAndApplied ==
    [][/\ \A b \in DOMAIN calls :
              (/\ DiscardedSince(b, discarded) # {}
               /\ calls[b].pc = "translate"
               /\ calls'[b].pc = "done"
               /\ calls'[b].failed = "none")
              => (calls'[b].updates = 1 /\ calls'[b].emitSeq >= 1)
       /\ updates' = updates + 1
          => \E b \in DOMAIN calls :
                 /\ calls[b].sock = Page
                 /\ calls[b].emitSeq = updates'
                 /\ transcriptionBuffer' =
                        ManageCompactTranscription(transcriptionBuffer,
                            calls[b].transcription, calls[b].translation, now')]_vars

\* C24 happens: the update of a call that a stop-recording had overtaken was
\* emitted after it, and the page has just joined its texts to the buffer.
C24_Witness ==
    \E b \in DOMAIN calls :
        /\ calls[b].sock = Page
        /\ DiscardedSince(b, calls[b].emittedAfter) # {}
        /\ calls[b].emitSeq = updates
        /\ calls[b].transcription = Word
        /\ last.op = "update"
        /\ last.arabicText = Word
        /\ Truthy(transcriptionBuffer.arabic)
        /\ Truthy(transcriptionBuffer.english)

\* Buffer.concat(buffers) is empty: every fragment of the batch has length 0
EmptyContent(batch) == \A i \in DOMAIN batch : batch[i].bytes = 0

\* C25: a fragment of length 0 is accepted and counts toward the threshold of
\* 2 like any other (a pending list of 2 or more fragments has been submitted
\* as a batch, whatever their lengths), and a batch whose content is empty is
\* not handed to the recognizer.
C25_EmptyBatchSkipsRecognition ==
    /\ Len(audioBuffers) >= BatchThreshold
       => \E b \in DOMAIN calls : calls[b].batch = audioBuffers
    /\ \A b \in DOMAIN calls :
           EmptyContent(calls[b].batch) => calls[b].recognizeCalls = 0

\* the text shown for one language ("arabic" or "english") with buffer buf
Shown(buf, lang) ==
    LET placeholder == IF lang = "arabic" THEN ArabicPlaceholder ELSE EnglishPlaceholder
    IN  IF policy = "simple" THEN SimpleDisplayed(buf[lang], placeholder)
        ELSE Displayed(buf[lang], placeholder)

\* part is a piece of whole
Contains(whole, part) ==
    \E k \in 0..(Len(whole) - Len(part)) : SubSeq(whole, k + 1, k + Len(part)) = part

\* the last update truncated the accumulator of lang
TruncatedNow(lang) ==
    policy # "simple" /\ Len(last.joined[lang]) > Ceiling(lang)

\* C26: the pairs are accumulated in every client variant: after an update with
\* a non-empty text that arrives when text of earlier updates of the session is
\* shown, that earlier text is still part of what is shown, unless the update
\* truncated the accumulator.
C26_UpdatesAccumulate ==
    last.op = "update" =>
        \A lang \in {"arabic", "english"} :
            LET text == IF lang = "arabic" THEN last.arabicText ELSE last.englishText
            IN  (/\ HasText(text)
                 /\ Truthy(Trim(last.prior[lang]))
                 /\ ~TruncatedNow(lang))
                => Contains(Shown(transcriptionBuffer, lang), Trim(last.prior[lang]))

\* C27: the two accumulators of the compact policy are independent: the English
\* content after an update is what the same English text at the same time gives
\* in the run whose Arabic texts are all absent (same English content and
\* lastUpdate before, empty Arabic accumulator), and the Arabic content is what
\* it is in the run whose English texts are all absent.
C27_AccumulatorsIndependent ==
    CompactUpdated =>
        /\ transcriptionBuffer.english =
               ManageCompactTranscription([last.prior EXCEPT !.arabic = Empty],
                                          Empty, last.englishText, now).english
        /\ transcriptionBuffer.arabic =
               ManageCompactTranscription([last.prior EXCEPT !.english = Empty],
                                          last.arabicText, Empty, now).arabic

\* C28: truncation never empties an accumulator: in both policies, as long as
\* an accumulator has received a non-empty text since the last reset, its
\* trimmed content is not empty.
C28_TruncationNeverEmpties ==
    /\ Len(heard.arabic) > 0 => Truthy(Trim(transcriptionBuffer.arabic))
    /\ Len(heard.english) > 0 => Truthy(Trim(transcriptionBuffer.english))

\* C28 happens: both accumulators were truncated by the last update, and text
\* is left behind the ellipsis in both.
C28_Witness ==
    /\ last.op = "update"
    /\ HasText(last.arabicText)
    /\ HasText(last.englishText)
    /\ Len(last.joined.arabic) > Ceiling("arabic")
    /\ Len(last.joined.english) > Ceiling("english")
    /\ Truthy(Trim(last.prior.arabic))
    /\ Truthy(Trim(last.prior.english))
    /\ Len(Trim(transcriptionBuffer.arabic)) > Len(Ellipsis)
    /\ Len(Trim(transcriptionBuffer.english)) > Len(Ellipsis)

\* the 0-based position of the last paragraph break of s that begins at or
\* before position cut; -1 when there is none
NearestBreak(s, cut) ==
    LET breaks == {k \in 0..cut : k + 2 <= Len(s) /\ SubSeq(s, k + 1, k + 2) = ParagraphBreak}
    IN  IF breaks = {} THEN -1 ELSE CHOOSE k \in breaks : \A j \in breaks : j <= k

\* result is what the compact policy is said to keep of pre, an accumulator with
\* this ceiling, keep offset and boundary threshold that has grown too long
PrefersBreak(result, pre, ceiling, keepOffset, threshold) ==
    LET cut == Len(pre) - ceiling + keepOffset
        break == NearestBreak(pre, cut)
    IN  IF break > threshold
        THEN result = Ellipsis \o SubSeq(pre, break + 1, Len(pre))
        ELSE /\ result = Ellipsis \o SubSeq(pre, cut + 1, Len(pre))
             /\ Len(result) - Len(Ellipsis) = ceiling - keepOffset

\* C29 as stated: compact truncation prefers a paragraph break: with cut =
\* length - maxLength + 100, the Arabic text that is kept starts at the nearest
\* paragraph break at or before cut when that break lies beyond position
\* maxLength / 3, and otherwise at cut, and then exactly maxLength - 100
\* characters are kept behind the ellipsis; the English accumulator does the
\* same with ceiling 0.8 * maxLength and threshold 0.8 * maxLength / 2.
C29_TruncationPrefersBreak ==
    CompactUpdated =>
        /\ (HasText(last.arabicText) /\ Len(last.joined.arabic) > 300)
           => PrefersBreak(transcriptionBuffer.arabic, last.joined.arabic, 300, 100, 100)
        /\ (HasText(last.englishText) /\ Len(last.joined.english) > 240)
           => PrefersBreak(transcriptionBuffer.english, last.joined.english, 240, 100, 120)

\* C29 as amended: the Arabic accumulator as stated; the English accumulator
\* does the same with ceiling 0.8 * maxLength, cut = length - 0.8 * maxLength
\* + 50 and threshold 0.8 * maxLength / 2, so that 0.8 * maxLength - 50
\* characters are kept behind the ellipsis when it cuts at cut.
C29_TruncationPrefersBreakEnglishKeeps190 ==
    CompactUpdated =>
        /\ (HasText(last.arabicText) /\ Len(last.joined.arabic) > 300)
           => PrefersBreak(transcriptionBuffer.arabic, last.joined.arabic, 300, 100, 100)
        /\ (HasText(last.englishText) /\ Len(last.joined.english) > 240)
           => PrefersBreak(transcriptionBuffer.english, last.joined.english, 240, 50, 120)

\* C29 happens: the last update truncated the Arabic accumulator at a paragraph
\* break beyond position 100 and the English accumulator at the cut, where 190
\* characters are kept.
C29_Witness ==
    /\ CompactUpdated
    /\ HasText(last.arabicText)
    /\ HasText(last.englishText)
    /\ Len(last.joined.arabic) > 300
    /\ Len(last.joined.english) > 240
    /\ NearestBreak(last.joined.arabic, Len(last.joined.arabic) - 200) > 100
    /\ NearestBreak(last.joined.english, Len(last.joined.english) - 190) <= 120
    /\ Len(transcriptionBuffer.english) = 193

\* s ends with tail
EndsWith(s, tail) ==
    /\ Len(tail) <= Len(s)
    /\ SubSeq(s, Len(s) - Len(tail) + 1, Len(s)) = tail

\* what the accumulator of lang holds behind the ellipsis that the last update
\* put in front of it, or all of it when the last update did not truncate
Retained(lang) ==
    IF Len(last.joined[lang]) > Ceiling(lang)
    THEN SubSeq(transcriptionBuffer[lang], Len(Ellipsis) + 1, Len(transcriptionBuffer[lang]))
    ELSE transcriptionBuffer[lang]

\* the accumulator of lang ends with the trimmed text, or holds only a tail of it
EndsWithReceived(lang, text) ==
    IF Len(Trim(text)) <= Len(Retained(lang))
    THEN EndsWith(transcriptionBuffer[lang], Trim(text))
    ELSE /\ Len(last.joined[lang]) > Ceiling(lang)
         /\ SubSeq(transcriptionBuffer[lang], 1, Len(Ellipsis)) = Ellipsis
         /\ EndsWith(Trim(text), Retained(lang))

\* C30: in both policies, after every update with non-empty text the content of
\* the accumulator ends with the trimmed text just received, or with the tail
\* of that text when the text is longer than what truncation retains: truncation
\* only removes the oldest content.
C30_NewestTextSurvives ==
    last.op = "update" =>
        /\ HasText(last.arabicText) => EndsWithReceived("arabic", last.arabicText)
        /\ HasText(last.englishText) => EndsWithReceived("english", last.englishText)

\* C30 happens: an update of the cumulative policy truncated an accumulator
\* that still ends with the whole text received, or an update of the compact
\* policy left only the tail of its text.
C30_Witness ==
    /\ last.op = "update"
    /\ HasText(last.arabicText)
    /\ Len(last.joined.arabic) > Ceiling("arabic")
    /\ \/ /\ policy = "cumulative"
          /\ Len(last.prior.arabic) > Len(Retained("arabic"))
          /\ Len(Trim(last.arabicText)) < Len(Retained("arabic"))
          /\ EndsWith(transcriptionBuffer.arabic, Trim(last.arabicText))
       \/ /\ policy = "compact"
          /\ Len(Trim(last.arabicText)) > Len(Retained("arabic"))
          /\ EndsWith(Trim(last.arabicText), Retained("arabic"))

\* the ids of the fragments that some call of processAudioChunk was given
Submitted(cs) == UNION {FragmentIds(cs[b].batch) : b \in DOMAIN cs}

\* C31: a fragment leaves the pending list of the server only by being included
\* in a submitted batch or by a start-recording, stop-recording or disconnect
\* (the steps that leave the calls and the received fragments as they are):
\* whatever the timing of the completions of the pipeline, no received fragment
\* is dropped without having been submitted.
C31_PendingLeavesOnlySubmitted ==
    [][\A f \in FragmentIds(audioBuffers) \ FragmentIds(audioBuffers') :
          \/ f \in Submitted(calls')
          \/ calls' = calls /\ received' = received]_vars

\* the call whose transcription-update the page handles in this step
DeliveredNow(b) ==
    /\ updates' = updates + 1
    /\ calls[b].sock = Page
    /\ calls[b].emitSeq = updates'

\* call b completes in this step
CompletesNow(b) == calls[b].pc # "done" /\ calls'[b].pc = "done"

\* C32: after a recording start has reset the buffer of the page, the buffer
\* only receives text of batches of the current session: no update of a call
\* that the server had already made when the buffer was reset is joined to it
\* (such a batch holds fragments of an earlier session only), and the completion
\* of a call that was made before the last start-recording was handled removes
\* no pending fragment on the server.
C32_OnlyCurrentSession ==
    [][/\ \A b \in DOMAIN calls : DeliveredNow(b) => b > heard.callsBefore
       /\ \A b \in DOMAIN calls :
              (CompletesNow(b) /\ calls[b].session < Starts(calls[b].sock))
              => FragmentIds(audioBuffers) \subseteq FragmentIds(audioBuffers')]_vars

\* the last request of the page that the server handled was a stop-recording
StoppedOnServer ==
    /\ Len(acks[Page]) > 0
    /\ acks[Page][Len(acks[Page])] = "recording-stopped"

\* C33: once the server has handled the stop-recording of a session, it submits
\* no batch to the recognition pipeline until it handles the next
\* start-recording, whatever the page still sends while and after its recorder
\* stops.
C33_NoBatchAfterStop ==
    [][StoppedOnServer => Len(calls') = Len(calls)]_vars

\* C34: every time the client stops capture during a connected session (user
\* toggle, page hidden, server error event, recorder error) it also signals
\* stop-recording to the server in the same handler, so that the server does not
\* keep pending fragments of a session whose client no longer records.
C34_StopAlwaysSignalled ==
    [][(CaptureStops /\ clientLog'.handler # "disconnect")
       => outbox' = Append(outbox, <<"stop-recording">>)]_vars

\* C35: in the compact policy an update whose transcript and translation are
\* both absent, empty or white space only leaves the whole buffer as it was:
\* both contents and lastUpdate keep their values, so that such an update cannot
\* change whether the next text is a continuation.
C35_EmptyUpdateChangesNothing ==
    (CompactUpdated /\ ~HasText(last.arabicText) /\ ~HasText(last.englishText))
    => transcriptionBuffer = last.prior

\* C36: after every update and every reset of the compact and the cumulative
\* client, each element shows the trimmed content of its accumulator when that
\* has text and its waiting placeholder when it is empty, so the text shown
\* never differs from the buffer.
C36_DisplayShowsBuffer ==
    policy \in {"compact", "cumulative"}
    => \A lang \in {"arabic", "english"} :
           textContent[lang] =
               IF Truthy(Trim(transcriptionBuffer[lang]))
               THEN Trim(transcriptionBuffer[lang])
               ELSE Placeholders[lang]

\* C36 happens: a reset has emptied a buffer whose texts were shown, and both
\* elements show their placeholders again.
C36_Witness ==
    /\ last.op = "clear"
    /\ HasText(last.prior.arabic)
    /\ HasText(last.prior.english)
    /\ transcriptionBuffer.arabic = Empty
    /\ textContent = Placeholders

\* the acknowledgement of a request
AckOf(request) ==
    IF request = "start-recording" THEN "recording-started" ELSE "recording-stopped"

\* C37: every start-recording the server handles is answered by exactly one
\* recording-started and every stop-recording by exactly one recording-stopped,
\* emitted to the connection the request came from, also while calls of the
\* pipeline are in flight: the history of every connection is a sequence of
\* pairs of a request and its acknowledgement.
C37_EveryRequestAcknowledged ==
    \A s \in DOMAIN acks :
        /\ Len(acks[s]) % 2 = 0
        /\ \A i \in DOMAIN acks[s] :
               i % 2 = 1
               => /\ acks[s][i] \in {"start-recording", "stop-recording"}
                  /\ acks[s][i + 1] = AckOf(acks[s][i])

\* C37 happens: a connection was acknowledged a second start-recording while a
\* call for the fragments of its first one was still in flight, and another
\* connection has been acknowledged a stop-recording of its own.
C37_Witness ==
    \E s \in DOMAIN acks : \E b \in DOMAIN calls :
        /\ calls[b].sock = s
        /\ calls[b].pc # "done"
        /\ calls[b].session = 1
        /\ Starts(s) = 2
        /\ \E t \in DOMAIN acks \ {s} :
               acks[t] = <<"start-recording", "recording-started",
                           "stop-recording", "recording-stopped">>

\* C38: the prayer mode and the fullscreen of a single box exclude each other:
\* whatever calls of enterFullscreen, exitFullscreen, enterIndividualFullscreen
\* and exitIndividualFullscreen were made, isFullscreen and
\* isIndividualFullscreen are not both true.
C38_FullscreenModesExclusive ==
    ~(fullscreen.isFullscreen /\ fullscreen.isIndividualFullscreen)

====
